---- MODULE Spec2Model ----
(***************************************************************************)
(* IoT telemetry ingestion and alerting of the CKD backend                 *)
(* (backend/app/api/api_v1/endpoints/iot.py over the tables of             *)
(* backend/app/models/iot.py).                                             *)
(*                                                                         *)
(* Conventions.  A Python None / SQL NULL / missing dict key is the empty  *)
(* tuple <<>>; a present value x is <<x>> or a tagged tuple.  A JSON       *)
(* number is <<"int", n>> or <<"float", n>>, a JSON string <<"str", s>>.   *)
(* A table is the sequence of its rows, a row's id its position.  Fields   *)
(* named call, saw, prof, at, fault and fault_at are history fields: they  *)
(* record which request wrote a row, when, what it read and where the      *)
(* store failed it, and no handler reads them.                             *)
(***************************************************************************)
EXTENDS Integers, Sequences, FiniteSets, TLC

VARIABLES
    devices,    \* table sensor_devices
    readings,   \* table sensor_readings
    alerts,     \* table alert_logs
    profiles,   \* table monitoring_profiles, by patient: <<>> or <<thresholds>>
    now,        \* datetime.utcnow()
    pc,         \* per worker: the handler position
    loc,        \* per worker: the handler's locals and its session's pending writes
    log,        \* history: one record per request, in arrival order
    touched,    \* history: the requests whose last_sync write was committed
    medications \* table medications, by id: the adherence_rate, in hundredths

vars == <<devices, readings, alerts, profiles, now, pc, loc, log, touched, medications>>

store == <<devices, readings, alerts>>

----------------------------------------------------------------------------
(* Bounds *)

\* requests per run of the store specification
MaxCalls == 2
\* requests per run of the classification specification
MaxClassifyCalls == 1
\* the clock of the concurrent runs stops here
MaxTime == 2

Workers == {"w1", "w2"}
Patients == {"p1", "p2"}

----------------------------------------------------------------------------
(* Python values *)

None == <<>>

Int_(n) == <<"int", n>>
Float_(n) == <<"float", n>>
Str_(s) == <<"str", s>>

\* isinstance(x, (int, float))
IsNumber(x) == x # None /\ x[1] \in {"int", "float"}

\* float(x) for a number x
ToFloat(x) == Float_(x[2])

\* the truth value of an Optional number: None and 0 are falsy
Truthy(x) == x # None /\ x[2] # 0

\* d.get(k, default) on a dict d
Get(d, k, default) == IF k \in DOMAIN d THEN d[k] ELSE default

EmptyDict == [k \in {} |-> 0]

----------------------------------------------------------------------------
(* Thresholds *)

DefaultThresholds ==
    [blood_pressure |-> [systolic_max |-> 140, diastolic_max |-> 90],
     glucose        |-> [max |-> 140, min |-> 70],
     weight         |-> [change_percent_max |-> 5],
     heart_rate     |-> [max |-> 100, min |-> 60]]

\* the thresholds _analyze_reading works with, given the profile row it read
ThresholdsOf(profile) ==
    IF profile = None THEN DefaultThresholds ELSE profile[1]

\* thresholds[type][bound] where the profile has it, and no bound at all otherwise
BoundWithoutFallback(thresholds, type, bound, default) ==
    IF type \in DOMAIN thresholds /\ bound \in DOMAIN thresholds[type]
    THEN thresholds[type][bound]
    ELSE IF bound = "min" THEN -1000 ELSE 1000

\* thresholds.get(type, {}).get(bound, default)
Bound(thresholds, type, bound, default) ==
    Get(Get(thresholds, type, EmptyDict), bound, default)

----------------------------------------------------------------------------
(* _analyze_reading and _get_alert_type *)

\* an analysis whose alerts all carry the severity critical
AnalysisAlwaysCritical(quality, is_alert, severity, message) ==
    [quality |-> quality, is_alert |-> is_alert,
     severity |-> IF is_alert THEN <<"critical">> ELSE severity, message |-> message]

Analysis(quality, is_alert, severity, message) ==
    [quality |-> quality, is_alert |-> is_alert,
     severity |-> severity, message |-> message]

Good == Analysis("good", FALSE, None, None)

\* an f-string "<text>{value}<unit>"
Message(text, value, unit) == <<text, value, unit>>

AnalyzeReading(reading_type, value, profile) ==
    LET thresholds == ThresholdsOf(profile)
        v == value[2]
    IN  IF reading_type = "blood_pressure" /\ Truthy(value)
        THEN IF v > Bound(thresholds, "blood_pressure", "systolic_max", 140)
             THEN Analysis("warning", TRUE, <<"warning">>,
                      Message("High blood pressure detected: ", value, " mmHg"))
             ELSE Good
        ELSE IF reading_type = "glucose" /\ Truthy(value)
        THEN IF v > Bound(thresholds, "glucose", "max", 140)
             THEN Analysis("critical", TRUE, <<"critical">>,
                      Message("High glucose level: ", value, " mg/dL"))
             ELSE IF v < Bound(thresholds, "glucose", "min", 70)
             THEN Analysis("critical", TRUE, <<"critical">>,
                      Message("Low glucose level: ", value, " mg/dL"))
             ELSE Good
        ELSE IF reading_type = "heart_rate" /\ Truthy(value)
        THEN IF v > Bound(thresholds, "heart_rate", "max", 100)
             THEN Analysis("warning", TRUE, <<"warning">>,
                      Message("High heart rate: ", value, " bpm"))
             ELSE IF v < Bound(thresholds, "heart_rate", "min", 60)
             THEN Analysis("warning", TRUE, <<"warning">>,
                      Message("Low heart rate: ", value, " bpm"))
             ELSE Good
        ELSE Good

GetAlertType(reading_type, value) ==
    LET v == value[2]
        general == <<"general_", reading_type>>
    IN  IF reading_type = "blood_pressure"
        THEN IF Truthy(value) /\ v > 140 THEN <<"high_bp">> ELSE general
        ELSE IF reading_type = "glucose"
        THEN IF Truthy(value) /\ v > 140 THEN <<"high_glucose">>
             ELSE IF Truthy(value) /\ v < 70 THEN <<"low_glucose">>
             ELSE general
        ELSE IF reading_type = "heart_rate"
        THEN IF Truthy(value) /\ v > 100 THEN <<"high_heart_rate">>
             ELSE IF Truthy(value) /\ v < 60 THEN <<"low_heart_rate">>
             ELSE general
        ELSE general

----------------------------------------------------------------------------
(* create_sensor_reading: the pure parts *)

\* an extraction that looks at systolic first for blood pressure
ExtractNumericSystolicFirst(reading_type, reading_data) ==
    IF reading_type = "blood_pressure"
       /\ IsNumber(Get(reading_data, "systolic", None))
    THEN ToFloat(reading_data["systolic"])
    ELSE IF IsNumber(Get(reading_data, "value", None))
    THEN reading_data["value"]
    ELSE None

\* numeric_value, from the payload
ExtractNumeric(reading_type, reading_data) ==
    IF IsNumber(Get(reading_data, "value", None))
    THEN reading_data["value"]
    ELSE IF reading_type = "blood_pressure"
            /\ IsNumber(Get(reading_data, "systolic", None))
    THEN ToFloat(reading_data["systolic"])
    ELSE None

\* reading_data.get('unit') or ("mmHg" if blood_pressure else None)
ExtractUnit(reading_type, reading_data) ==
    LET u == Get(reading_data, "unit", None)
    IN  IF u # None /\ u # Str_("") THEN u
        ELSE IF reading_type = "blood_pressure" THEN Str_("mmHg")
        ELSE None

----------------------------------------------------------------------------
(* Rows *)

\* DeviceRegistration
DeviceRegistration(patient_id, device_type, device_name, manufacturer, model, device_id, mac_address) ==
    [patient_id |-> patient_id, device_type |-> device_type,
     device_name |-> device_name, manufacturer |-> manufacturer,
     model |-> model, device_id |-> device_id, mac_address |-> mac_address]

\* a registration that leaves the new device switched off
DeviceRowCreatedInactive(device, is_active, last_sync, call) ==
    [patient_id |-> device.patient_id, device_type |-> device.device_type,
     device_name |-> device.device_name, manufacturer |-> device.manufacturer,
     model |-> device.model, device_id |-> device.device_id,
     mac_address |-> device.mac_address,
     is_active |-> is_active /\ call = 0, last_sync |-> last_sync, call |-> call]

\* SensorDevice(...); call is 0 for a row that was in the table at start
DeviceRow(device, is_active, last_sync, call) ==
    [patient_id |-> device.patient_id, device_type |-> device.device_type,
     device_name |-> device.device_name, manufacturer |-> device.manufacturer,
     model |-> device.model, device_id |-> device.device_id,
     mac_address |-> device.mac_address,
     is_active |-> is_active, last_sync |-> last_sync, call |-> call]

\* a device query that lost its filter
FirstDeviceUnfiltered(devs, device_id) == IF devs = <<>> THEN 0 ELSE 1

\* the row of sensor_devices a query by device_id returns first: its id, or 0
FirstDevice(devs, device_id) ==
    LET hits == {i \in DOMAIN devs : devs[i].device_id = device_id}
    IN  IF hits = {} THEN 0 ELSE CHOOSE i \in hits : \A j \in hits : i <= j

\* a profile query that lost its filter: the first profile of any patient
FirstProfileUnfiltered(profs, patient_id) ==
    IF \A p \in DOMAIN profs : profs[p] = None THEN None
    ELSE profs[CHOOSE p \in DOMAIN profs : profs[p] # None]

\* the row of monitoring_profiles a query by patient returns: <<>> or <<thresholds>>
FirstProfile(profs, patient_id) == profs[patient_id]

\* what the table says of a device_id when a request arrives (history)
DeviceState(devs, device_id) ==
    IF \A i \in DOMAIN devs : devs[i].device_id # device_id THEN "missing"
    ELSE IF \E i \in DOMAIN devs : devs[i].device_id = device_id /\ devs[i].is_active
    THEN "active" ELSE "inactive"

\* a reading stamped with the server's clock whatever the caller sent
ReadingRowServerTime(device_id, device, reading, numeric_value, analysis, t, call, prof) ==
    [device_id |-> device_id,
     patient_id |-> device.patient_id,
     reading_type |-> reading.reading_type,
     reading_timestamp |-> t,
     reading_data |-> reading.reading_data,
     numeric_value |-> IF numeric_value = None THEN None ELSE ToFloat(numeric_value),
     unit |-> ExtractUnit(reading.reading_type, reading.reading_data),
     quality |-> analysis.quality,
     is_alert |-> analysis.is_alert,
     alert_severity |-> analysis.severity,
     alert_message |-> analysis.message,
     call |-> call, prof |-> prof, at |-> t]

\* SensorReading(...) of create_sensor_reading, as the Float column keeps the value
ReadingRow(device_id, device, reading, numeric_value, analysis, t, call, prof) ==
    [device_id |-> device_id,
     patient_id |-> device.patient_id,
     reading_type |-> reading.reading_type,
     reading_timestamp |->
        IF reading.reading_timestamp # None THEN reading.reading_timestamp[1] ELSE t,
     reading_data |-> reading.reading_data,
     numeric_value |-> IF numeric_value = None THEN None ELSE ToFloat(numeric_value),
     unit |-> ExtractUnit(reading.reading_type, reading.reading_data),
     quality |-> analysis.quality,
     is_alert |-> analysis.is_alert,
     alert_severity |-> analysis.severity,
     alert_message |-> analysis.message,
     call |-> call, prof |-> prof, at |-> t]

\* an alert whose is_read column defaults to true
AlertRowCreatedRead(device, reading, numeric_value, analysis, t, call) ==
    [patient_id |-> device.patient_id,
     sensor_reading_id |-> None,
     alert_type |-> GetAlertType(reading.reading_type, numeric_value),
     severity |-> analysis.severity,
     alert_message |-> analysis.message,
     alert_timestamp |-> t,
     is_read |-> TRUE, is_acknowledged |-> FALSE,
     acknowledged_by |-> None, acknowledged_at |-> None,
     call |-> call]

\* an alert whose is_acknowledged column defaults to true
AlertRowCreatedAcknowledged(device, reading, numeric_value, analysis, t, call) ==
    [patient_id |-> device.patient_id,
     sensor_reading_id |-> None,
     alert_type |-> GetAlertType(reading.reading_type, numeric_value),
     severity |-> analysis.severity,
     alert_message |-> analysis.message,
     alert_timestamp |-> t,
     is_read |-> FALSE, is_acknowledged |-> TRUE,
     acknowledged_by |-> None, acknowledged_at |-> None,
     call |-> call]

\* AlertLog(...) of create_sensor_reading; the column defaults fill the status
AlertRow(device, reading, numeric_value, analysis, t, call) ==
    [patient_id |-> device.patient_id,
     sensor_reading_id |-> None,
     alert_type |-> GetAlertType(reading.reading_type, numeric_value),
     severity |-> analysis.severity,
     alert_message |-> analysis.message,
     alert_timestamp |-> t,
     is_read |-> FALSE, is_acknowledged |-> FALSE,
     acknowledged_by |-> None, acknowledged_at |-> None,
     call |-> call]

\* SensorReadingResponse(...) holds float numeric_value and str unit: None fails validation
ResponseValid(row) == row.numeric_value # None /\ row.unit # None

SensorReadingResponse(id, device_name, row) ==
    [id |-> id, device_name |-> device_name,
     reading_type |-> row.reading_type,
     reading_timestamp |-> row.reading_timestamp,
     numeric_value |-> row.numeric_value, unit |-> row.unit,
     quality |-> row.quality, is_alert |-> row.is_alert,
     alert_message |-> row.alert_message]

----------------------------------------------------------------------------
(* The session: pending writes, flush and commit *)

IdleLoc ==
    [call |-> 0, reading |-> None, device_id |-> 0, device |-> None,
     numeric_value |-> None, db_reading |-> None, alert |-> None,
     last_sync |-> None, db_device |-> None]

\* a handler that builds the AlertLog and never adds it to the session
FlushStepsWithoutAlert(l) == <<"device", "reading">>

\* the writes the flush of create_sensor_reading issues, in order
FlushSteps(l) ==
    <<"device", "reading">> \o (IF l.alert # None THEN <<"alert">> ELSE <<>>)

\* a flush that stamps the device with the reading's timestamp
FlushedStampFromReading(st, l, n) ==
    LET steps == FlushSteps(l)
        done(s) == \E i \in 1..n : i <= Len(steps) /\ steps[i] = s
    IN  <<IF done("device")
          THEN [st[1] EXCEPT ![l.device_id].last_sync =
                                 l.db_reading[1].reading_timestamp]
          ELSE st[1],
          IF done("reading") THEN Append(st[2], l.db_reading[1]) ELSE st[2],
          IF done("alert") THEN Append(st[3], l.alert[1]) ELSE st[3]>>

\* a flush that also sets the device's type to the reading's
FlushedRetypingDevice(st, l, n) ==
    LET steps == FlushSteps(l)
        done(s) == \E i \in 1..n : i <= Len(steps) /\ steps[i] = s
    IN  <<IF done("device")
          THEN [st[1] EXCEPT ![l.device_id].last_sync = l.last_sync[1],
                             ![l.device_id].device_type = l.db_reading[1].reading_type]
          ELSE st[1],
          IF done("reading") THEN Append(st[2], l.db_reading[1]) ELSE st[2],
          IF done("alert") THEN Append(st[3], l.alert[1]) ELSE st[3]>>

\* a flush whose UPDATE of last_sync has no WHERE clause
FlushedEveryDevice(st, l, n) ==
    LET steps == FlushSteps(l)
        done(s) == \E i \in 1..n : i <= Len(steps) /\ steps[i] = s
    IN  <<IF done("device")
          THEN [d \in DOMAIN st[1] |-> [st[1][d] EXCEPT !.last_sync = l.last_sync[1]]]
          ELSE st[1],
          IF done("reading") THEN Append(st[2], l.db_reading[1]) ELSE st[2],
          IF done("alert") THEN Append(st[3], l.alert[1]) ELSE st[3]>>

\* the tables with the first n writes of the flush applied
Flushed(st, l, n) ==
    LET steps == FlushSteps(l)
        done(s) == \E i \in 1..n : i <= Len(steps) /\ steps[i] = s
    IN  <<IF done("device")
          THEN [st[1] EXCEPT ![l.device_id].last_sync = l.last_sync[1]]
          ELSE st[1],
          IF done("reading") THEN Append(st[2], l.db_reading[1]) ELSE st[2],
          IF done("alert") THEN Append(st[3], l.alert[1]) ELSE st[3]>>

\* a session that commits each write as it is issued
CommittedEachWrite(st, l, n) ==
    IF n = 0 THEN Flushed(st, l, Len(FlushSteps(l))) ELSE Flushed(st, l, n - 1)

\* a commit that drops a Reading equal to a stored one of the same device, type,
\* payload and timestamp, and its Alert with it
CommittedDeduplicating(st, l, n) ==
    LET new == l.db_reading[1]
        same(i) == /\ st[2][i].device_id = new.device_id
                   /\ st[2][i].reading_type = new.reading_type
                   /\ st[2][i].reading_data = new.reading_data
                   /\ st[2][i].reading_timestamp = new.reading_timestamp
    IN  IF n # 0 THEN st
        ELSE IF \E i \in DOMAIN st[2] : same(i) THEN Flushed(st, l, 1)
        ELSE Flushed(st, l, Len(FlushSteps(l)))

\* a session whose failed commit leaves the device's last_sync written
CommittedKeepsLastSync(st, l, n) ==
    IF n = 0 THEN Flushed(st, l, Len(FlushSteps(l))) ELSE Flushed(st, l, 1)

\* the tables after db.commit() whose n-th write fails (n = 0: none fails, and
\* n past the last write: the COMMIT itself fails): the transaction is all or nothing
Committed(st, l, n) ==
    IF n = 0 THEN Flushed(st, l, Len(FlushSteps(l))) ELSE st

----------------------------------------------------------------------------
(* Requests and their outcomes *)

\* SensorReadingCreate
SensorReadingCreate(device_id, reading_type, reading_data, reading_timestamp) ==
    [device_id |-> device_id, reading_type |-> reading_type,
     reading_data |-> reading_data, reading_timestamp |-> reading_timestamp]

\* a request enters at time now: status 0 until its handler returns or raises
Entry(op, req, saw) ==
    [op |-> op, req |-> req, saw |-> saw, status |-> 0, body |-> None,
     fault |-> FALSE, fault_at |-> "none", at |-> now]

\* the handler of request call ends with an HTTP status and a body
Ended(lg, call, status, body) ==
    [lg EXCEPT ![call].status = status, ![call].body = body]

\* the store failed an operation of request call (history)
Faulted(lg, call) == [lg EXCEPT ![call].fault = TRUE]

\* the operation the store failed (history): "profile", "write", "commit",
\* "refresh", or "unique" for a violated unique constraint
FaultedAt(lg, call, step) == [Faulted(lg, call) EXCEPT ![call].fault_at = step]

----------------------------------------------------------------------------
(* POST /readings: create_sensor_reading *)

\* device checks that forget the activation flag
DeviceCheckExistsOnly(devs, d) == IF d = 0 THEN 404 ELSE 0

\* lines 96-100: the status the device checks raise, 0 when they pass
DeviceCheck(devs, d) ==
    IF d = 0 THEN 404
    ELSE IF ~devs[d].is_active THEN 400
    ELSE 0

DeviceCheckDetail(status) ==
    IF status = 404 THEN <<"Device not found">> ELSE <<"Device is inactive">>

\* lines 90-111: the device query, the two checks, the extraction
IngestLookup(w, reading) ==
    /\ pc[w] = "idle"
    /\ Len(log) < MaxCalls
    /\ LET call == Len(log) + 1
           entered == Append(log, Entry("ingest", reading,
                                        DeviceState(devices, reading.device_id)))
           d == FirstDevice(devices, reading.device_id)
           raised == DeviceCheck(devices, d)
       IN  IF raised # 0
           THEN /\ log' = Ended(entered, call, raised, DeviceCheckDetail(raised))
                /\ UNCHANGED <<pc, loc>>
           ELSE /\ log' = entered
                /\ pc' = [pc EXCEPT ![w] = "analyze"]
                /\ loc' = [loc EXCEPT ![w] =
                       [IdleLoc EXCEPT
                           !.call = call, !.reading = <<reading>>,
                           !.device_id = d, !.device = <<devices[d]>>,
                           !.numeric_value =
                               ExtractNumeric(reading.reading_type,
                                              reading.reading_data)]]
    /\ UNCHANGED <<devices, readings, alerts, profiles, now, touched, medications>>

\* lines 113-151: the profile query (which the store may fail), the analysis, and
\* the session's pending reading, alert and last_sync
IngestAnalyze(w) ==
    /\ pc[w] = "analyze"
    /\ \E store_ok \in BOOLEAN :
         LET l == loc[w]
             reading == l.reading[1]
             device == l.device[1]
             profile == FirstProfile(profiles, device.patient_id)
             analysis == AnalyzeReading(reading.reading_type, l.numeric_value, profile)
         IN  IF ~store_ok
             THEN /\ log' = FaultedAt(Ended(log, l.call, 500,
                                             <<"Error creating reading">>),
                                       l.call, "profile")
                  /\ pc' = [pc EXCEPT ![w] = "idle"]
                  /\ loc' = [loc EXCEPT ![w] = IdleLoc]
             ELSE /\ loc' = [loc EXCEPT ![w] =
                        [l EXCEPT
                            !.db_reading =
                                <<ReadingRow(l.device_id, device, reading,
                                             l.numeric_value, analysis, now,
                                             l.call, profile)>>,
                            !.alert =
                                IF analysis.is_alert
                                THEN <<AlertRow(device, reading, l.numeric_value,
                                                analysis, now, l.call)>>
                                ELSE None,
                            !.last_sync = <<now>>]]
                  /\ pc' = [pc EXCEPT ![w] = "commit"]
                  /\ UNCHANGED log
    /\ UNCHANGED <<devices, readings, alerts, profiles, now, touched, medications>>

\* line 153, and lines 170-172 when it raises: db.commit() flushes the pending
\* writes and commits; the n-th of them (or the COMMIT) may fail
IngestCommit(w) ==
    /\ pc[w] = "commit"
    /\ LET l == loc[w]
       IN  \E n \in 0..(Len(FlushSteps(l)) + 1) :
             LET st == Committed(store, l, n)
             IN  /\ devices' = st[1]
                 /\ readings' = st[2]
                 /\ alerts' = st[3]
                 /\ touched' = IF st[1] # devices \/ n = 0
                               THEN touched \cup {l.call} ELSE touched
                 /\ IF n = 0
                    THEN /\ pc' = [pc EXCEPT ![w] = "respond"]
                         /\ loc' = [loc EXCEPT ![w].db_reading = <<Len(st[2])>>]
                         /\ UNCHANGED log
                    ELSE /\ log' = FaultedAt(Ended(log, l.call, 500,
                                                    <<"Error creating reading">>),
                                              l.call,
                                              IF n <= Len(FlushSteps(l))
                                              THEN "write" ELSE "commit")
                         /\ pc' = [pc EXCEPT ![w] = "idle"]
                         /\ loc' = [loc EXCEPT ![w] = IdleLoc]
    /\ UNCHANGED <<profiles, now, medications>>

\* lines 154-166, and 170-172 when they raise: db.refresh(db_reading), which the
\* store may fail, and the response model, which rejects None
IngestRespond(w) ==
    /\ pc[w] = "respond"
    /\ \E store_ok \in BOOLEAN :
         LET l == loc[w]
             id == l.db_reading[1]
             row == readings[id]
         IN  IF ~store_ok
             THEN log' = FaultedAt(Ended(log, l.call, 500,
                                         <<"Error creating reading">>),
                                   l.call, "refresh")
             ELSE IF ResponseValid(row)
             THEN log' = Ended(log, l.call, 200,
                               <<SensorReadingResponse(id,
                                     devices[l.device_id].device_name, row)>>)
             ELSE log' = Ended(log, l.call, 500, <<"Error creating reading">>)
    /\ pc' = [pc EXCEPT ![w] = "idle"]
    /\ loc' = [loc EXCEPT ![w] = IdleLoc]
    /\ UNCHANGED <<devices, readings, alerts, profiles, now, touched, medications>>

----------------------------------------------------------------------------
(* POST /devices: register_device *)

\* x or ""
OrEmpty(x) == IF x = None \/ x = Str_("") THEN Str_("") ELSE x

DeviceResponse(id, row) ==
    [id |-> id, device_type |-> row.device_type, device_name |-> row.device_name,
     manufacturer |-> OrEmpty(row.manufacturer), model |-> OrEmpty(row.model),
     device_id |-> row.device_id, is_active |-> row.is_active,
     last_sync |-> row.last_sync]

\* a registration that does not look the patient up
RegisterCheckAnyPatient(w, device) ==
    /\ pc[w] = "idle"
    /\ Len(log) < MaxCalls
    /\ LET call == Len(log) + 1
           entered == Append(log, Entry("register", device,
                                        DeviceState(devices, device.device_id)))
       IN  IF FirstDevice(devices, device.device_id) # 0
           THEN /\ log' = Ended(entered, call, 400, <<"Device already registered">>)
                /\ UNCHANGED <<pc, loc>>
           ELSE /\ log' = entered
                /\ pc' = [pc EXCEPT ![w] = "reg_commit"]
                /\ loc' = [loc EXCEPT ![w] =
                       [IdleLoc EXCEPT
                           !.call = call,
                           !.db_device = <<DeviceRow(device, TRUE, now, call)>>]]
    /\ UNCHANGED <<devices, readings, alerts, profiles, now, touched, medications>>

\* lines 243-267: the two existence checks and the pending device
RegisterCheck(w, device) ==
    /\ pc[w] = "idle"
    /\ Len(log) < MaxCalls
    /\ LET call == Len(log) + 1
           entered == Append(log, Entry("register", device,
                                        DeviceState(devices, device.device_id)))
       IN  IF FirstDevice(devices, device.device_id) # 0
           THEN /\ log' = Ended(entered, call, 400, <<"Device already registered">>)
                /\ UNCHANGED <<pc, loc>>
           ELSE IF device.patient_id \notin Patients
           THEN /\ log' = Ended(entered, call, 404, <<"Patient not found">>)
                /\ UNCHANGED <<pc, loc>>
           ELSE /\ log' = entered
                /\ pc' = [pc EXCEPT ![w] = "reg_commit"]
                /\ loc' = [loc EXCEPT ![w] =
                       [IdleLoc EXCEPT
                           !.call = call,
                           !.db_device = <<DeviceRow(device, TRUE, now, call)>>]]
    /\ UNCHANGED <<devices, readings, alerts, profiles, now, touched, medications>>

\* lines 269-282: db.commit() inserts the row unless the store fails or the unique
\* device_id is taken by now, and neither exception is caught; then db.refresh,
\* which the store may fail, and the response
RegisterCommit(w) ==
    /\ pc[w] = "reg_commit"
    /\ LET l == loc[w]
           row == l.db_device[1]
       IN  \E commit_ok, refresh_ok \in BOOLEAN :
             IF commit_ok /\ FirstDevice(devices, row.device_id) = 0
             THEN /\ devices' = Append(devices, row)
                  /\ log' = IF refresh_ok
                            THEN Ended(log, l.call, 200,
                                       <<DeviceResponse(Len(devices) + 1, row)>>)
                            ELSE FaultedAt(Ended(log, l.call, 500,
                                                 <<"Internal Server Error">>),
                                           l.call, "refresh")
             ELSE /\ refresh_ok
                  /\ log' = FaultedAt(Ended(log, l.call, 500,
                                            <<"Internal Server Error">>),
                                      l.call,
                                      IF commit_ok THEN "unique" ELSE "commit")
                  /\ UNCHANGED devices
    /\ pc' = [pc EXCEPT ![w] = "idle"]
    /\ loc' = [loc EXCEPT ![w] = IdleLoc]
    /\ UNCHANGED <<readings, alerts, profiles, now, touched, medications>>

----------------------------------------------------------------------------
(* The queries *)

ReadingsLimit == 1000
AlertsLimit == 100

\* the first n elements of a list
Take(seq, n) == SubSeq(seq, 1, IF Len(seq) < n THEN Len(seq) ELSE n)

\* ORDER BY key DESC over the rows ids: every order the database may return
\* (rows with equal keys come in any order)
OrderByDesc(ids, key) ==
    {s \in [1..Cardinality(ids) -> ids] :
        \A i, j \in DOMAIN s : i < j => s[i] # s[j] /\ key[s[i]] >= key[s[j]]}

\* a listing that refreshes the derived fields of the patient's rows from the
\* thresholds of the moment
GetPatientReadingsReclassifying(w, patient_id, hours, reading_type) ==
    /\ pc[w] = "idle"
    /\ Len(log) < MaxCalls
    /\ readings' =
         [i \in DOMAIN readings |->
            IF readings[i].patient_id # patient_id THEN readings[i]
            ELSE LET a == AnalyzeReading(readings[i].reading_type,
                                         readings[i].numeric_value,
                                         FirstProfile(profiles, patient_id))
                 IN  [readings[i] EXCEPT
                         !.quality = a.quality, !.is_alert = a.is_alert,
                         !.alert_severity = a.severity, !.alert_message = a.message]]
    /\ log' = Ended(Append(log, Entry("readings", <<patient_id, hours, reading_type>>,
                                      "none")),
                    Len(log) + 1, 200, <<"rows">>)
    /\ UNCHANGED <<devices, alerts, profiles, now, pc, loc, touched, medications>>

\* GET /patients/{patient_id}/readings: get_patient_readings
GetPatientReadings(w, patient_id, hours, reading_type) ==
    /\ pc[w] = "idle"
    /\ Len(log) < MaxCalls
    /\ LET call == Len(log) + 1
           entered == Append(log, Entry("readings", <<patient_id, hours, reading_type>>,
                                        "none"))
           since_time == now - hours
           ids == {i \in DOMAIN readings :
                     /\ readings[i].patient_id = patient_id
                     /\ readings[i].reading_timestamp >= since_time
                     /\ (reading_type # None /\ reading_type # Str_("")
                            => readings[i].reading_type = reading_type[2])}
           ts == [i \in ids |-> readings[i].reading_timestamp]
           device_name(i) ==
               IF readings[i].device_id \in DOMAIN devices
               THEN devices[readings[i].device_id].device_name ELSE "Unknown"
       IN  \E order \in OrderByDesc(ids, ts) :
             LET rows == Take(order, ReadingsLimit)
             IN  IF \A k \in DOMAIN rows : ResponseValid(readings[rows[k]])
                 THEN log' = Ended(entered, call, 200,
                          <<[k \in DOMAIN rows |->
                               SensorReadingResponse(rows[k], device_name(rows[k]),
                                                     readings[rows[k]])]>>)
                 ELSE log' = Ended(entered, call, 500, <<"Internal Server Error">>)
    /\ UNCHANGED <<devices, readings, alerts, profiles, now, pc, loc, touched, medications>>

AlertResponse(id, row) ==
    [id |-> id, patient_id |-> row.patient_id, alert_type |-> row.alert_type,
     severity |-> row.severity, alert_message |-> row.alert_message,
     alert_timestamp |-> row.alert_timestamp, is_read |-> row.is_read]

\* a listing that does not apply unread_only
GetPatientAlertsEveryAlert(w, patient_id, unread_only) ==
    /\ pc[w] = "idle"
    /\ Len(log) < MaxCalls
    /\ LET call == Len(log) + 1
           entered == Append(log, Entry("alerts", <<patient_id, unread_only>>, "none"))
           ids == {i \in DOMAIN alerts : alerts[i].patient_id = patient_id}
           ts == [i \in ids |-> alerts[i].alert_timestamp]
       IN  \E order \in OrderByDesc(ids, ts) :
             LET rows == Take(order, AlertsLimit)
             IN  log' = Ended(entered, call, 200,
                          <<[k \in DOMAIN rows |-> AlertResponse(rows[k], alerts[rows[k]])]>>)
    /\ UNCHANGED <<devices, readings, alerts, profiles, now, pc, loc, touched, medications>>

\* GET /patients/{patient_id}/alerts: get_patient_alerts
GetPatientAlerts(w, patient_id, unread_only) ==
    /\ pc[w] = "idle"
    /\ Len(log) < MaxCalls
    /\ LET call == Len(log) + 1
           entered == Append(log, Entry("alerts", <<patient_id, unread_only>>, "none"))
           ids == {i \in DOMAIN alerts :
                     /\ alerts[i].patient_id = patient_id
                     /\ (unread_only => alerts[i].is_read = FALSE)}
           ts == [i \in ids |-> alerts[i].alert_timestamp]
       IN  \E order \in OrderByDesc(ids, ts) :
             LET rows == Take(order, AlertsLimit)
             IN  log' = Ended(entered, call, 200,
                          <<[k \in DOMAIN rows |-> AlertResponse(rows[k], alerts[rows[k]])]>>)
    /\ UNCHANGED <<devices, readings, alerts, profiles, now, pc, loc, touched, medications>>

\* GET /patients/{patient_id}/devices: get_patient_devices
GetPatientDevices(w, patient_id) ==
    /\ pc[w] = "idle"
    /\ Len(log) < MaxCalls
    /\ LET call == Len(log) + 1
           entered == Append(log, Entry("devices", <<patient_id>>, "none"))
           ids == {i \in DOMAIN devices : devices[i].patient_id = patient_id}
           unordered == [i \in ids |-> 0]
       IN  \E order \in OrderByDesc(ids, unordered) :
             log' = Ended(entered, call, 200,
                      <<[k \in DOMAIN order |-> DeviceResponse(order[k], devices[order[k]])]>>)
    /\ UNCHANGED <<devices, readings, alerts, profiles, now, pc, loc, touched, medications>>

----------------------------------------------------------------------------
(* AcknowledgeAlert: the operation on the acknowledgment columns of AlertLog *)

\* an acknowledgment that refuses an alert that is acknowledged already
AcknowledgeAlertOnce(w, alert_id, actor) ==
    /\ pc[w] = "idle"
    /\ Len(log) < MaxCalls
    /\ LET call == Len(log) + 1
           entered == Append(log, Entry("acknowledge", <<alert_id, actor>>, "none"))
       IN  IF alert_id \notin DOMAIN alerts
           THEN /\ log' = Ended(entered, call, 404, <<"Alert not found">>)
                /\ UNCHANGED alerts
           ELSE IF alerts[alert_id].is_acknowledged
           THEN /\ log' = Ended(entered, call, 409, <<"Alert already acknowledged">>)
                /\ UNCHANGED alerts
           ELSE /\ alerts' = [alerts EXCEPT
                                 ![alert_id].is_acknowledged = TRUE,
                                 ![alert_id].is_read = TRUE,
                                 ![alert_id].acknowledged_by = <<actor>>,
                                 ![alert_id].acknowledged_at = <<now>>]
                /\ log' = Ended(entered, call, 200, <<alerts'[alert_id]>>)
    /\ UNCHANGED <<devices, readings, profiles, now, pc, loc, touched, medications>>

\* AcknowledgeAlert(alertId, actor): NotFound for a missing alert; else the alert
\* becomes acknowledged and read, with the actor and the time of this call
AcknowledgeAlert(w, alert_id, actor) ==
    /\ pc[w] = "idle"
    /\ Len(log) < MaxCalls
    /\ LET call == Len(log) + 1
           entered == Append(log, Entry("acknowledge", <<alert_id, actor>>, "none"))
       IN  IF alert_id \notin DOMAIN alerts
           THEN /\ log' = Ended(entered, call, 404, <<"Alert not found">>)
                /\ UNCHANGED alerts
           ELSE /\ alerts' = [alerts EXCEPT
                                 ![alert_id].is_acknowledged = TRUE,
                                 ![alert_id].is_read = TRUE,
                                 ![alert_id].acknowledged_by = <<actor>>,
                                 ![alert_id].acknowledged_at = <<now>>]
                /\ log' = Ended(entered, call, 200, <<alerts'[alert_id]>>)
    /\ UNCHANGED <<devices, readings, profiles, now, pc, loc, touched, medications>>

----------------------------------------------------------------------------
(* POST /medication-event: record_medication_event *)

\* the medications table at start: one medication of p1, adherence_rate at the
\* column default 0.0
SeedMedications == [m \in {"m1"} |-> Float_(0)]

\* Medication.patient_id of each medication
MedicationPatient == [m \in {"m1"} |-> "p1"]

\* lines 46-49: the medication with this id and this patient, or None
FirstMedication(medication_id, patient_id) ==
    IF /\ medication_id \in DOMAIN medications
       /\ MedicationPatient[medication_id] = patient_id
    THEN <<medication_id>>
    ELSE None

MedicationEventCreate(patient_id, medication_id, event_type) ==
    [patient_id |-> patient_id, medication_id |-> medication_id,
     event_type |-> event_type]

\* medication.adherence_rate or 0.85, in hundredths: NULL and 0.0 are falsy
OrDefaultRate(rate) == IF Truthy(rate) THEN rate[2] ELSE 85

\* lines 66-76: the rate after an event; an event of another type changes nothing
UpdatedRate(rate, event_type) ==
    LET current_rate == OrDefaultRate(rate)
    IN  IF event_type \in {"taken", "dispensed"}
        THEN Float_(IF current_rate + 1 > 100 THEN 100 ELSE current_rate + 1)
        ELSE IF event_type = "missed"
        THEN Float_(IF current_rate - 5 < 0 THEN 0 ELSE current_rate - 5)
        ELSE rate

\* record_medication_event: 404 without the patient's medication; else the rate is
\* updated and committed, unless the store fails (500)
RecordMedicationEvent(w, event) ==
    /\ pc[w] = "idle"
    /\ Len(log) < MaxCalls
    /\ LET call == Len(log) + 1
           entered == Append(log, Entry("medication", event, "none"))
           m == event.medication_id
       IN  IF FirstMedication(m, event.patient_id) = None
           THEN /\ log' = Ended(entered, call, 404,
                                <<"Medication not found for this patient">>)
                /\ UNCHANGED medications
           ELSE \E store_ok \in BOOLEAN :
                  IF store_ok
                  THEN /\ medications' =
                            [medications EXCEPT
                                ![m] = UpdatedRate(medications[m], event.event_type)]
                       /\ log' = Ended(entered, call, 200, <<medications'[m]>>)
                  ELSE /\ log' = FaultedAt(Ended(entered, call, 500,
                                                 <<"Error recording event">>),
                                           call, "commit")
                       /\ UNCHANGED medications
    /\ UNCHANGED <<devices, readings, alerts, profiles, now, pc, loc, touched>>

----------------------------------------------------------------------------
(* The environment: the patients' monitoring profiles *)

\* datetime.utcnow(): time passes between any two steps
Tick ==
    /\ now < MaxTime
    /\ now' = now + 1
    /\ UNCHANGED <<devices, readings, alerts, profiles, pc, loc, log, touched, medications>>

\* a patient's MonitoringProfile is created or its thresholds are replaced
ProfileChange(patient_id, thresholds) ==
    /\ profiles[patient_id] # <<thresholds>>
    /\ profiles' = [profiles EXCEPT ![patient_id] = <<thresholds>>]
    /\ UNCHANGED <<devices, readings, alerts, now, pc, loc, log, touched, medications>>

\* a profile that tightens glucose and has no entry for the other types
ProfileA == [glucose |-> [max |-> 120, min |-> 80]]

\* a profile whose glucose entry lacks min, with tighter blood pressure and heart rate
ProfileB ==
    [blood_pressure |-> [systolic_max |-> 120],
     glucose |-> [max |-> 180],
     heart_rate |-> [max |-> 90, min |-> 50]]

----------------------------------------------------------------------------
(* Inputs *)

\* a dict with the given keys present
Dict(value, systolic, unit) ==
    LET keys == (IF value # None THEN {"value"} ELSE {})
                \cup (IF systolic # None THEN {"systolic"} ELSE {})
                \cup (IF unit # None THEN {"unit"} ELSE {})
    IN  [k \in keys |-> IF k = "value" THEN value
                        ELSE IF k = "systolic" THEN systolic ELSE unit]

ReadingTypes == {"blood_pressure", "glucose", "heart_rate", "weight"}

Values == {-5, 0, 55, 75, 130, 150}

\* the requests of the classification runs: every type with every shape of
\* payload, and some of them without a unit
ClassifyInputs ==
    {SensorReadingCreate("d1", t, Dict(v, s, Str_("u")), None) :
        t \in ReadingTypes,
        v \in {None, Str_("high")} \cup {Int_(n) : n \in Values},
        s \in {None, Int_(150)}}
    \cup {SensorReadingCreate("d1", t, Dict(v, None, None), None) :
            t \in ReadingTypes, v \in {None, Int_(150)}}

\* the requests of the store runs: d1 and d2 are registered, d3 is not
IngestInputs ==
    {SensorReadingCreate("d1", x[1], x[2], x[3]) :
        x \in {<<"glucose", Dict(Int_(150), None, Str_("mg/dL")), None>>,
               <<"glucose", Dict(Int_(150), None, Str_("mg/dL")), <<0>> >>,
               <<"glucose", Dict(Int_(75), None, Str_("mg/dL")), None>>,
               <<"glucose", Dict(None, None, Str_("mg/dL")), None>>,
               <<"weight", Dict(Int_(75), None, None), None>>}}
    \cup {SensorReadingCreate(d, "blood_pressure", Dict(None, Int_(150), None), None) :
            d \in {"d2", "d3"}}

RegisterInputs ==
    {DeviceRegistration(x[1], "heart_rate", "strap", None, None, x[2], None) :
        x \in {<<"p1", "d3">>, <<"p1", "d1">>, <<"p9", "d3">>}}

\* the devices in the table at start: d1 active, d2 active or not
SeedDevices(d2_active) ==
    <<DeviceRow(DeviceRegistration("p1", "glucose", "meter", None, None, "d1", None),
                TRUE, 0, 0),
      DeviceRow(DeviceRegistration("p2", "blood_pressure", "cuff", Str_("acme"),
                                   None, "d2", None),
                d2_active, 0, 0)>>

----------------------------------------------------------------------------
(* Specifications *)

Init ==
    /\ devices \in {SeedDevices(b) : b \in BOOLEAN}
    /\ readings = <<>>
    /\ alerts = <<>>
    /\ profiles = [p \in Patients |-> None]
    /\ now = 1
    /\ pc = [w \in Workers |-> "idle"]
    /\ loc = [w \in Workers |-> IdleLoc]
    /\ log = <<>>
    /\ touched = {}
    /\ medications = SeedMedications

\* one worker serves the requests one after another
Next ==
    \/ \E r \in IngestInputs : IngestLookup("w1", r)
    \/ IngestAnalyze("w1")
    \/ IngestCommit("w1")
    \/ IngestRespond("w1")
    \/ \E d \in RegisterInputs : RegisterCheck("w1", d)
    \/ RegisterCommit("w1")
    \/ \E t \in {None, Str_("glucose")} : GetPatientReadings("w1", "p1", 1, t)
    \/ \E u \in BOOLEAN : GetPatientAlerts("w1", "p1", u)
    \/ GetPatientDevices("w1", "p1")
    \/ \E th \in {ProfileA, ProfileB} : ProfileChange("p1", th)

Spec == Init /\ [][Next]_vars

\* classification: one device, every profile, every payload
InitClassify ==
    /\ devices = SeedDevices(TRUE)
    /\ readings = <<>>
    /\ alerts = <<>>
    /\ profiles \in {[p \in Patients |-> IF p = "p1" THEN x ELSE y] :
                        x \in {None, <<ProfileA>>, <<ProfileB>>},
                        y \in {None, <<ProfileB>>}}
    /\ now = 1
    /\ pc = [w \in Workers |-> "idle"]
    /\ loc = [w \in Workers |-> IdleLoc]
    /\ log = <<>>
    /\ touched = {}
    /\ medications = SeedMedications

NextClassify ==
    \/ \E r \in ClassifyInputs : Len(log) < MaxClassifyCalls /\ IngestLookup("w1", r)
    \/ IngestAnalyze("w1")
    \/ IngestCommit("w1")
    \/ IngestRespond("w1")

SpecClassify == InitClassify /\ [][NextClassify]_vars

\* the requests of the concurrent runs: an alerting and a normal reading of d1,
\* the second with a timestamp of the caller's, and a reading of d3
ConcurrentIngestInputs ==
    {SensorReadingCreate("d1", "glucose", Dict(Int_(150), None, Str_("mg/dL")), None),
     SensorReadingCreate("d1", "glucose", Dict(Int_(75), None, Str_("mg/dL")), <<0>>),
     SensorReadingCreate("d3", "heart_rate", Dict(Int_(75), None, Str_("bpm")), None)}

ConcurrentRegisterInputs ==
    {DeviceRegistration(p, "heart_rate", "strap", None, None, "d3", None) :
        p \in Patients}

\* concurrency: uvicorn serves requests on several threads, each with a session
\* of its own, and the clock runs
InitConcurrent ==
    /\ devices = SeedDevices(TRUE)
    /\ readings = <<>>
    /\ alerts = <<>>
    /\ profiles = [p \in Patients |-> None]
    /\ now = 1
    /\ pc = [w \in Workers |-> "idle"]
    /\ loc = [w \in Workers |-> IdleLoc]
    /\ log = <<>>
    /\ touched = {}
    /\ medications = SeedMedications

NextConcurrent ==
    \/ \E w \in Workers, r \in ConcurrentIngestInputs : IngestLookup(w, r)
    \/ \E w \in Workers : IngestAnalyze(w)
    \/ \E w \in Workers : IngestCommit(w)
    \/ \E w \in Workers : IngestRespond(w)
    \/ \E w \in Workers, d \in ConcurrentRegisterInputs : RegisterCheck(w, d)
    \/ \E w \in Workers : RegisterCommit(w)
    \/ Tick

SpecConcurrent == InitConcurrent /\ [][NextConcurrent]_vars

\* the alerting readings the alert runs start from: two of d1 (patient p1) and one
\* of d2 (patient p2), taken in at time 0 and at time 1
SeedRequests ==
    <<SensorReadingCreate("d1", "glucose", Dict(Int_(150), None, Str_("mg/dL")), None),
      SensorReadingCreate("d1", "glucose", Dict(Int_(55), None, Str_("mg/dL")), None),
      SensorReadingCreate("d2", "blood_pressure", Dict(None, Int_(150), None), None)>>

SeedTimes == <<0, 1, 1>>

\* what create_sensor_reading stored for the k-th of them: its Reading or its Alert
SeedRow(k, table) ==
    LET reading == SeedRequests[k]
        d == FirstDevice(SeedDevices(TRUE), reading.device_id)
        device == SeedDevices(TRUE)[d]
        numeric_value == ExtractNumeric(reading.reading_type, reading.reading_data)
        analysis == AnalyzeReading(reading.reading_type, numeric_value, None)
    IN  IF table = "readings"
        THEN ReadingRow(d, device, reading, numeric_value, analysis, SeedTimes[k], 0, None)
        ELSE AlertRow(device, reading, numeric_value, analysis, SeedTimes[k], 0)

Actors == {"dr_a", "dr_b"}

\* alerts: three stored alerts, none read, and the clock runs
InitAlerts ==
    /\ devices = [d \in DOMAIN SeedDevices(TRUE) |->
                    [SeedDevices(TRUE)[d] EXCEPT !.last_sync = 1]]
    /\ readings = [k \in DOMAIN SeedRequests |-> SeedRow(k, "readings")]
    /\ alerts = [k \in DOMAIN SeedRequests |-> SeedRow(k, "alerts")]
    /\ profiles = [p \in Patients |-> None]
    /\ now = 1
    /\ pc = [w \in Workers |-> "idle"]
    /\ loc = [w \in Workers |-> IdleLoc]
    /\ log = <<>>
    /\ touched = {}
    /\ medications = SeedMedications

NextAlerts ==
    \/ \E id \in 1..(Len(SeedRequests) + 1), actor \in Actors :
          AcknowledgeAlert("w1", id, actor)
    \/ \E p \in Patients, u \in BOOLEAN : GetPatientAlerts("w1", p, u)
    \/ Tick

SpecAlerts == InitAlerts /\ [][NextAlerts]_vars

\* the requests of the independence runs: readings of d1 (patient p1) and of d2
\* (patient p2), alerting and not
IndependentIngestInputs ==
    {SensorReadingCreate("d1", "glucose", Dict(Int_(v), None, Str_("mg/dL")), None) :
        v \in {75, 130}}
    \cup {SensorReadingCreate("d2", "blood_pressure", Dict(None, Int_(v), None), None) :
            v \in {130, 150}}

\* independence: two workers take in readings of two devices; p1 has a profile or
\* not, and profiles stay as they are
InitIndependent ==
    /\ devices = SeedDevices(TRUE)
    /\ readings = <<>>
    /\ alerts = <<>>
    /\ profiles \in {[p \in Patients |-> IF p = "p1" THEN x ELSE None] :
                        x \in {None, <<ProfileA>>}}
    /\ now = 1
    /\ pc = [w \in Workers |-> "idle"]
    /\ loc = [w \in Workers |-> IdleLoc]
    /\ log = <<>>
    /\ touched = {}
    /\ medications = SeedMedications

NextIndependent ==
    \/ \E w \in Workers, r \in IndependentIngestInputs : IngestLookup(w, r)
    \/ \E w \in Workers : IngestAnalyze(w)
    \/ \E w \in Workers : IngestCommit(w)
    \/ \E w \in Workers : IngestRespond(w)

SpecIndependent == InitIndependent /\ [][NextIndependent]_vars

\* the events of the adherence runs: every event type, from each patient, for p1's
\* medication and for one that does not exist
MedicationEvents ==
    {MedicationEventCreate(p, m, t) :
        p \in Patients, m \in {"m1", "m9"},
        t \in {"taken", "dispensed", "missed", "refill"}}

\* adherence: the medication starts at any rate from 0.00 to 1.00
InitAdherence ==
    /\ devices = SeedDevices(TRUE)
    /\ readings = <<>>
    /\ alerts = <<>>
    /\ profiles = [p \in Patients |-> None]
    /\ now = 1
    /\ pc = [w \in Workers |-> "idle"]
    /\ loc = [w \in Workers |-> IdleLoc]
    /\ log = <<>>
    /\ touched = {}
    /\ medications \in {[m \in {"m1"} |-> Float_(n)] : n \in 0..100}

NextAdherence == \E event \in MedicationEvents : RecordMedicationEvent("w1", event)

SpecAdherence == InitAdherence /\ [][NextAdherence]_vars

----------------------------------------------------------------------------
(* Properties *)

IngestCalls == {c \in DOMAIN log : log[c].op = "ingest"}

ReadingsOf(c) == {i \in DOMAIN readings : readings[i].call = c}

AlertsOf(c) == {i \in DOMAIN alerts : alerts[i].call = c}

\* C1: every Ingest call has committed its Reading, its Alert (exactly when the
\* reading is alerting) and the device's last_sync together, or none of them, also
\* when the store failed it at some step; so no alerting Reading is stored without
\* the Alert of the same call
C1_IngestAtomic ==
    \A c \in IngestCalls :
        \/ /\ ReadingsOf(c) = {}
           /\ AlertsOf(c) = {}
           /\ c \notin touched
        \/ /\ Cardinality(ReadingsOf(c)) = 1
           /\ c \in touched
           /\ \A i \in ReadingsOf(c) :
                Cardinality(AlertsOf(c)) = IF readings[i].is_alert THEN 1 ELSE 0

\* C1 witness: one call committed an alerting Reading with its Alert, and another
\* call, which the store failed, left nothing
C1_Witness ==
    \E c1, c2 \in IngestCalls :
        /\ \E i \in ReadingsOf(c1) : readings[i].is_alert
        /\ AlertsOf(c1) # {}
        /\ log[c2].fault /\ log[c2].status = 500
        /\ ReadingsOf(c2) = {} /\ AlertsOf(c2) = {} /\ c2 \notin touched

\* C2 (as claimed): for every stored Reading, if is_alert then exactly one stored
\* Alert references it (sensor_reading_id is its id) with the same severity and
\* message, and if not is_alert then no Alert references it or was created by its call
C2_AlertReferencesReading ==
    \A i \in DOMAIN readings :
        LET refs == {a \in DOMAIN alerts : alerts[a].sensor_reading_id = <<i>>}
        IN  IF readings[i].is_alert
            THEN /\ Cardinality(refs) = 1
                 /\ \A a \in refs :
                      /\ alerts[a].severity = readings[i].alert_severity
                      /\ alerts[a].alert_message = readings[i].alert_message
            ELSE refs = {} /\ AlertsOf(readings[i].call) = {}

\* the classification table of the design, over the resolved bounds: the profile's
\* bound when the profile has one for the type, else the system default
SystemDefault(type, bound) ==
    CASE type = "blood_pressure" /\ bound = "systolic_max" -> 140
      [] type = "glucose" /\ bound = "max" -> 140
      [] type = "glucose" /\ bound = "min" -> 70
      [] type = "heart_rate" /\ bound = "max" -> 100
      [] type = "heart_rate" /\ bound = "min" -> 60

Resolved(profile, type, bound) ==
    IF profile # None /\ type \in DOMAIN profile[1]
       /\ bound \in DOMAIN profile[1][type]
    THEN profile[1][type][bound]
    ELSE SystemDefault(type, bound)

TableRow(quality, severity, text, v, unit) ==
    [quality |-> quality, is_alert |-> TRUE, severity |-> <<severity>>,
     message |-> <<text, v, unit>>]

TableGood == [quality |-> "good", is_alert |-> FALSE, severity |-> None, message |-> None]

TableClassify(type, v, profile) ==
    CASE type = "blood_pressure" ->
            IF v > Resolved(profile, type, "systolic_max")
            THEN TableRow("warning", "warning", "High blood pressure detected: ", v, " mmHg")
            ELSE TableGood
      [] type = "glucose" ->
            IF v > Resolved(profile, type, "max")
            THEN TableRow("critical", "critical", "High glucose level: ", v, " mg/dL")
            ELSE IF v < Resolved(profile, type, "min")
            THEN TableRow("critical", "critical", "Low glucose level: ", v, " mg/dL")
            ELSE TableGood
      [] type = "heart_rate" ->
            IF v > Resolved(profile, type, "max")
            THEN TableRow("warning", "warning", "High heart rate: ", v, " bpm")
            ELSE IF v < Resolved(profile, type, "min")
            THEN TableRow("warning", "warning", "Low heart rate: ", v, " bpm")
            ELSE TableGood
      [] OTHER -> TableGood

\* the derived fields of a stored Reading, the message by its text, amount and unit
Derived(r) ==
    [quality |-> r.quality, is_alert |-> r.is_alert, severity |-> r.alert_severity,
     message |-> IF r.alert_message = None THEN None
                 ELSE <<r.alert_message[1], r.alert_message[2][2], r.alert_message[3]>>]

\* C3 (as claimed): every stored Reading with a numeric value, 0 and negative
\* values included, has quality, is_alert, severity and message as the
\* classification table gives them for its type, value and resolved thresholds
C3_ClassificationMatchesTable ==
    \A i \in DOMAIN readings :
        LET r == readings[i]
        IN  r.numeric_value # None =>
                Derived(r) = TableClassify(r.reading_type, r.numeric_value[2], r.prof)

\* C4: an Ingest that arrives for a registered, inactive device ends with 400
\* "Device is inactive" and commits no Reading, no Alert and no last_sync
C4_InactiveRejected ==
    \A c \in IngestCalls :
        log[c].saw = "inactive" =>
            /\ log[c].status = 400
            /\ log[c].body = <<"Device is inactive">>
            /\ ReadingsOf(c) = {} /\ AlertsOf(c) = {} /\ c \notin touched

\* C4 witness: an Ingest for an inactive device was answered, after another Ingest
\* had stored a Reading
C4_Witness ==
    \E c \in IngestCalls :
        /\ log[c].saw = "inactive" /\ log[c].status = 400
        /\ readings # <<>>

\* C5: an Ingest whose device_id matches no device ends with 404 and commits no
\* Reading, no Alert and no last_sync, and the devices are as many as before
C5_UnknownDeviceRejected ==
    \A c \in IngestCalls :
        log[c].saw = "missing" =>
            /\ log[c].status = 404
            /\ log[c].body = <<"Device not found">>
            /\ ReadingsOf(c) = {} /\ AlertsOf(c) = {} /\ c \notin touched
            /\ \A d \in DOMAIN devices : devices[d].call # c

\* C5 witness: an Ingest for an unregistered device_id was answered, after another
\* Ingest had stored a Reading
C5_Witness ==
    \E c \in IngestCalls :
        /\ log[c].saw = "missing" /\ log[c].status = 404
        /\ readings # <<>>

\* the payload gives no numeric value: no numeric value field, and not a
\* blood_pressure reading with a numeric systolic
NoNumeric(req) ==
    /\ ~("value" \in DOMAIN req.reading_data /\ IsNumber(req.reading_data["value"]))
    /\ ~(/\ req.reading_type = "blood_pressure"
         /\ "systolic" \in DOMAIN req.reading_data
         /\ IsNumber(req.reading_data["systolic"]))

\* C6 (as claimed): an Ingest on an active device whose payload gives no numeric
\* value, once answered and unless the store failed, has succeeded with the Reading
\* summary: null numeric value, quality good, is_alert false, and no Alert
C6_NullValueIngestSucceeds ==
    \A c \in IngestCalls :
        (/\ log[c].saw = "active" /\ NoNumeric(log[c].req)
         /\ log[c].status # 0 /\ ~log[c].fault) =>
            /\ log[c].status = 200
            /\ log[c].body[1].numeric_value = None
            /\ log[c].body[1].quality = "good"
            /\ log[c].body[1].is_alert = FALSE
            /\ AlertsOf(c) = {}

\* the tag whose direction is that of the classification branch that fires
TableTag(type, v, profile) ==
    CASE type = "blood_pressure" /\ v > Resolved(profile, type, "systolic_max") ->
            <<"high_bp">>
      [] type = "glucose" /\ v > Resolved(profile, type, "max") -> <<"high_glucose">>
      [] type = "glucose" /\ v <= Resolved(profile, type, "max")
            /\ v < Resolved(profile, type, "min") -> <<"low_glucose">>
      [] type = "heart_rate" /\ v > Resolved(profile, type, "max") ->
            <<"high_heart_rate">>
      [] type = "heart_rate" /\ v <= Resolved(profile, type, "max")
            /\ v < Resolved(profile, type, "min") -> <<"low_heart_rate">>
      [] OTHER -> <<"general_", type>>

\* C7 (as claimed): the Alert of every alerting Reading carries the tag of the
\* branch that fired under the thresholds the Reading was classified with, and
\* never the general_ fallback
C7_AlertTypeFollowsThresholds ==
    \A a \in DOMAIN alerts :
        \A i \in ReadingsOf(alerts[a].call) :
            LET r == readings[i]
            IN  /\ alerts[a].alert_type =
                       TableTag(r.reading_type, r.numeric_value[2], r.prof)
                /\ alerts[a].alert_type[1] # "general_"

\* the derived fields an analysis gives, the message by its text, amount and unit
DerivedOf(a) ==
    [quality |-> a.quality, is_alert |-> a.is_alert, severity |-> a.severity,
     message |-> IF a.message = None THEN None
                 ELSE <<a.message[1], a.message[2][2], a.message[3]>>]

\* C8: no step of any operation (Ingest, registration, query, profile change)
\* removes a stored Reading or changes a field of it, and the derived fields of every
\* stored Reading are those the analysis gives under the profile its call read
C8_ReadingsImmutable ==
    /\ [][\A i \in DOMAIN readings :
            i \in DOMAIN readings' /\ readings'[i] = readings[i]]_vars
    /\ [](\A i \in DOMAIN readings :
            Derived(readings[i]) =
                DerivedOf(AnalyzeReading(readings[i].reading_type,
                                         readings[i].numeric_value,
                                         readings[i].prof)))

\* C8 witness: a stored Reading whose patient's profile has changed since, to one
\* under which the analysis would differ, and a later request has been answered
C8_Witness ==
    \E i \in DOMAIN readings :
        LET r == readings[i]
        IN  /\ profiles[r.patient_id] # r.prof
            /\ Derived(r) # DerivedOf(AnalyzeReading(r.reading_type, r.numeric_value,
                                                     profiles[r.patient_id]))
            /\ \E c \in DOMAIN log : c > r.call /\ log[c].status = 200

C10_ExtractionPolicy ==
    \A i \in DOMAIN readings :
        LET r == readings[i]
            d == r.reading_data
        IN  IF "value" \in DOMAIN d /\ IsNumber(d["value"])
            THEN r.numeric_value # None /\ r.numeric_value[2] = d["value"][2]
            ELSE IF /\ r.reading_type = "blood_pressure"
                    /\ "systolic" \in DOMAIN d /\ IsNumber(d["systolic"])
            THEN r.numeric_value # None /\ r.numeric_value[2] = d["systolic"][2]
            ELSE /\ r.numeric_value = None
                 /\ r.quality = "good" /\ ~r.is_alert
                 /\ AlertsOf(r.call) = {}

\* C10 witness: a blood_pressure Reading whose payload has a numeric value and a
\* different numeric systolic took the value
C10_Witness ==
    \E i \in DOMAIN readings :
        LET r == readings[i]
            d == r.reading_data
        IN  /\ r.reading_type = "blood_pressure"
            /\ "value" \in DOMAIN d /\ IsNumber(d["value"])
            /\ "systolic" \in DOMAIN d /\ IsNumber(d["systolic"])
            /\ d["value"][2] # d["systolic"][2]
            /\ r.numeric_value = ToFloat(d["value"])

\* C11: when the store fails an Ingest call after the device checks, at the profile
\* query, at one of the writes or at the COMMIT, the call answers 500 and its
\* Reading, its Alert and its last_sync update are all absent from the store
C11_StoreFailureLeavesNothing ==
    \A c \in IngestCalls :
        log[c].fault_at \in {"profile", "write", "commit"}
            => /\ log[c].status = 500
               /\ ReadingsOf(c) = {}
               /\ AlertsOf(c) = {}
               /\ c \notin touched

\* C11 witness: the store failed one call at the profile query and another, of an
\* alerting reading, during the commit; both answered 500 and the tables are as seeded
C11_Witness ==
    \E c1, c2 \in IngestCalls :
        /\ log[c1].fault_at = "profile" /\ log[c1].status = 500
        /\ log[c2].fault_at \in {"write", "commit"} /\ log[c2].status = 500
        /\ log[c2].req.reading_data = Dict(Int_(150), None, Str_("mg/dL"))
        /\ readings = <<>> /\ alerts = <<>>
        /\ \A d \in DOMAIN devices : devices[d].last_sync = 0

RegisterCalls == {c \in DOMAIN log : log[c].op = "register"}

DevicesOf(c) == {i \in DOMAIN devices : devices[i].call = c}

\* C12: a RegisterDevice call whose device_id is registered already answers 400, and
\* one whose device_id is free but whose patient does not exist answers 404; such a
\* call creates no Device, and the step that rejects it leaves the device table as
\* it was
C12_RegisterRejections ==
    /\ [](\A c \in RegisterCalls :
            /\ log[c].saw # "missing"
                  => log[c].status = 400 /\ DevicesOf(c) = {}
            /\ log[c].saw = "missing" /\ log[c].req.patient_id \notin Patients
                  => log[c].status = 404 /\ DevicesOf(c) = {})
    /\ [][/\ Len(log') > Len(log)
           /\ log'[Len(log')].op = "register"
           /\ log'[Len(log')].status \in {400, 404}
           => devices' = devices]_vars

\* C12 witness: one registration was refused with 400 for a taken device_id and
\* another with 404 for an unknown patient, and the table holds the seeded devices
C12_Witness ==
    \E c1, c2 \in RegisterCalls :
        /\ log[c1].saw # "missing" /\ log[c1].status = 400
        /\ log[c2].req.patient_id \notin Patients /\ log[c2].status = 404
        /\ \E b \in BOOLEAN : devices = SeedDevices(b)

\* C13 (as claimed): no two Devices share a device_id, also when two RegisterDevice
\* calls with the same device_id both pass the existence check before either
\* commits; and the call that loses (it ended without creating a Device, its patient
\* exists and the store did not fail it) is answered 400
C13_UniqueDeviceIdLoserConflict ==
    /\ \A i, j \in DOMAIN devices :
            devices[i].device_id = devices[j].device_id => i = j
    /\ \A c \in RegisterCalls :
            /\ log[c].status # 0
            /\ DevicesOf(c) = {}
            /\ log[c].req.patient_id \in Patients
            /\ log[c].fault_at \notin {"commit", "refresh"}
            => log[c].status = 400

\* C14: a RegisterDevice call that succeeds has created its Device active and with
\* last_sync the time of the registration, and a Device a registration created
\* stays active; so an Ingest call that arrives for the device_id of such a Device
\* is not answered 404 or 400
C14_RegisteredDeviceIngestable ==
    /\ [](\A c \in RegisterCalls :
            /\ log[c].status = 200
                  => /\ Cardinality(DevicesOf(c)) = 1
                     /\ log[c].body[1].is_active
                     /\ log[c].body[1].last_sync = log[c].at
            /\ \A i \in DevicesOf(c) :
                  devices[i].is_active /\ devices[i].last_sync >= log[c].at)
    /\ [][/\ Len(log') > Len(log)
           /\ log'[Len(log')].op = "ingest"
           /\ (\E i \in DOMAIN devices :
                 /\ devices[i].call # 0
                 /\ devices[i].device_id = log'[Len(log')].req.device_id)
           => log'[Len(log')].status \notin {400, 404}]_vars

\* C14 witness: d3 was registered after the clock had moved, and a reading of d3
\* that arrived afterwards is stored
C14_Witness ==
    \E c \in RegisterCalls, k \in IngestCalls :
        /\ log[c].status = 200 /\ log[c].at = MaxTime
        /\ log[c].body[1].last_sync = MaxTime
        /\ log[k].req.device_id = log[c].req.device_id
        /\ log[k].saw = "active"
        /\ ReadingsOf(k) # {}

\* C15: the step that commits an Ingest call's Reading, alerting or not, leaves the
\* device's last_sync at the time the call took the reading in, whatever
\* reading_timestamp the caller supplied
C15_LastSyncIsIngestionTime ==
    [][Len(readings') > Len(readings)
       => LET r == readings'[Len(readings')]
          IN  devices'[r.device_id].last_sync = r.at]_vars

\* C15 witness: a normal reading that came with the caller's timestamp 0 was taken
\* in at a later time, which is the device's last_sync, and an alerting reading of
\* the same device is stored as well
C15_Witness ==
    \E i, j \in DOMAIN readings :
        /\ ~readings[i].is_alert
        /\ readings[i].reading_timestamp = 0
        /\ readings[i].at = MaxTime
        /\ devices[readings[i].device_id].last_sync = MaxTime
        /\ readings[j].is_alert
        /\ readings[j].device_id = readings[i].device_id

\* C16 (as claimed): no step lowers a device's last_sync, however concurrent Ingest
\* calls for the same device interleave
C16_LastSyncMonotonic ==
    [][\A d \in DOMAIN devices : devices'[d].last_sync >= devices[d].last_sync]_vars

\* the ids of the alerts a listing returned
Listed(entry) == {entry.body[1][k].id : k \in DOMAIN entry.body[1]}

\* C17: a ListAlerts call for a patient with unread_only returns exactly that
\* patient's stored alerts whose is_read is false, so an acknowledged alert is left
\* out and an unread one is in; without unread_only it returns all of the patient's
\* alerts (the stored alerts are fewer than the limit)
C17_UnreadOnlyFilter ==
    [][/\ Len(log') > Len(log)
       /\ log'[Len(log')].op = "alerts"
       => LET entry == log'[Len(log')]
              patient_id == entry.req[1]
              unread_only == entry.req[2]
          IN  /\ entry.status = 200
              /\ Listed(entry) =
                    {i \in DOMAIN alerts :
                        /\ alerts[i].patient_id = patient_id
                        /\ unread_only => ~alerts[i].is_read}
              /\ \A k \in DOMAIN entry.body[1] :
                    /\ entry.body[1][k].patient_id = patient_id
                    /\ unread_only => ~entry.body[1][k].is_read]_vars

\* C17 witness: of p1's two alerts the first was acknowledged and the second left
\* unread, and a listing with unread_only returned the second alone
C17_Witness ==
    /\ Len(log) = 2
    /\ log[1].op = "acknowledge" /\ log[1].req[1] = 1 /\ log[1].status = 200
    /\ log[2].op = "alerts" /\ log[2].req = <<"p1", TRUE>>
    /\ alerts[1].patient_id = "p1" /\ alerts[2].patient_id = "p1"
    /\ alerts[1].is_acknowledged /\ ~alerts[2].is_read
    /\ Listed(log[2]) = {2}

AcknowledgeCalls == {c \in DOMAIN log : log[c].op = "acknowledge"}

\* C18: an AcknowledgeAlert call on a stored alert answers with the alert
\* acknowledged and read, by the call's actor at the call's time, and leaves it
\* acknowledged and read in the store; on an id that is not stored it answers 404;
\* and no stored Alert is acknowledged without being read
C18_AcknowledgeImpliesRead ==
    /\ \A i \in DOMAIN alerts : alerts[i].is_acknowledged => alerts[i].is_read
    /\ \A c \in AcknowledgeCalls :
          LET alert_id == log[c].req[1]
              actor == log[c].req[2]
          IN  IF alert_id \in DOMAIN alerts
              THEN /\ log[c].status = 200
                   /\ log[c].body[1].is_acknowledged /\ log[c].body[1].is_read
                   /\ log[c].body[1].acknowledged_by = <<actor>>
                   /\ log[c].body[1].acknowledged_at = <<log[c].at>>
                   /\ alerts[alert_id].is_acknowledged /\ alerts[alert_id].is_read
                   /\ alerts[alert_id].acknowledged_by # None
                   /\ alerts[alert_id].acknowledged_at # None
              ELSE log[c].status = 404

\* C18 witness: an alert was acknowledged by dr_a after the clock had moved and is
\* stored acknowledged and read with that actor and time, and the acknowledgment of
\* an id that is not stored was answered 404
C18_Witness ==
    \E c1, c2 \in AcknowledgeCalls :
        /\ log[c1].status = 200 /\ log[c1].at = MaxTime
        /\ LET a == alerts[log[c1].req[1]]
           IN  /\ a.is_acknowledged /\ a.is_read
               /\ a.acknowledged_by = <<"dr_a">>
               /\ a.acknowledged_at = <<MaxTime>>
        /\ log[c2].req[1] \notin DOMAIN alerts /\ log[c2].status = 404

\* C19: the step that acknowledges an alert that is acknowledged already answers
\* 200, changes of that alert only acknowledged_by and acknowledged_at, which become
\* the call's actor and time, and changes no other alert
C19_AcknowledgeIdempotent ==
    [][/\ Len(log') > Len(log)
       /\ log'[Len(log')].op = "acknowledge"
       /\ log'[Len(log')].req[1] \in DOMAIN alerts
       /\ alerts[log'[Len(log')].req[1]].is_acknowledged
       => LET entry == log'[Len(log')]
              alert_id == entry.req[1]
          IN  /\ entry.status = 200
              /\ alerts' = [alerts EXCEPT
                               ![alert_id].acknowledged_by = <<entry.req[2]>>,
                               ![alert_id].acknowledged_at = <<entry.at>>]]_vars

\* C19 witness: alert 1 was acknowledged by dr_a and then, later, again by dr_b,
\* whose name and time it carries now
C19_Witness ==
    /\ Len(log) = 2
    /\ log[1].op = "acknowledge" /\ log[1].req = <<1, "dr_a">> /\ log[1].status = 200
    /\ log[2].op = "acknowledge" /\ log[2].req = <<1, "dr_b">> /\ log[2].status = 200
    /\ log[1].at < log[2].at
    /\ alerts[1].acknowledged_by = <<"dr_b">>
    /\ alerts[1].acknowledged_at = <<log[2].at>>
    /\ alerts[1].is_acknowledged /\ alerts[1].is_read

AlertsOfPatient(p) == {i \in DOMAIN alerts : alerts[i].patient_id = p}

AlertingReadingsOfPatient(p) ==
    {i \in DOMAIN readings : readings[i].patient_id = p /\ readings[i].is_alert}

\* C20: every patient has as many stored Alerts as stored Readings with is_alert,
\* and a step that changes the alert table is the commit of an Ingest
\* call's alerting Reading, which adds one Alert; registrations and queries leave
\* the alert table as it is
C20_AlertsOnlyFromIngest ==
    /\ [](\A p \in Patients :
            Cardinality(AlertsOfPatient(p)) = Cardinality(AlertingReadingsOfPatient(p)))
    /\ [][alerts' # alerts
           => /\ Len(alerts') = Len(alerts) + 1
              /\ SubSeq(alerts', 1, Len(alerts)) = alerts
              /\ Len(readings') = Len(readings) + 1
              /\ readings'[Len(readings')].is_alert
              /\ readings'[Len(readings')].call = alerts'[Len(alerts')].call
              /\ log[alerts'[Len(alerts')].call].op = "ingest"]_vars

\* C20 witness: after an alerting and a normal Ingest for p1 and nothing else, p1
\* has two Readings and the one Alert of the alerting call
C20_Witness ==
    \E c1, c2 \in IngestCalls :
        /\ \E i \in ReadingsOf(c1) : readings[i].is_alert /\ readings[i].patient_id = "p1"
        /\ \E i \in ReadingsOf(c2) : ~readings[i].is_alert /\ readings[i].patient_id = "p1"
        /\ AlertsOfPatient("p1") = AlertsOf(c1)
        /\ Cardinality(AlertsOfPatient("p1")) = 1

\* the acknowledge calls that were applied to the stored alert i
AcknowledgedIn(i) ==
    {c \in AcknowledgeCalls : log[c].req[1] = i /\ log[c].status = 200}

\* C21: a stored Alert to which no acknowledge operation has been applied is as
\* Ingest created it: unread, unacknowledged, without acknowledger and without
\* acknowledgment time, whatever listings, registrations and further Ingest calls
\* have run since
C21_AlertCreatedUnread ==
    \A i \in DOMAIN alerts :
        AcknowledgedIn(i) = {}
            => /\ alerts[i].is_read = FALSE
               /\ alerts[i].is_acknowledged = FALSE
               /\ alerts[i].acknowledged_by = None
               /\ alerts[i].acknowledged_at = None

\* C21 witness: an Ingest call created an Alert, and a listing of the patient's
\* alerts that ran afterwards returned it unread
C21_Witness ==
    \E c \in IngestCalls, q \in DOMAIN log :
        /\ c < q /\ log[q].op = "alerts" /\ log[q].status = 200
        /\ AlertsOf(c) # {}
        /\ \A i \in AlertsOf(c) :
              /\ i \in Listed(log[q])
              /\ ~alerts[i].is_read /\ ~alerts[i].is_acknowledged
              /\ alerts[i].acknowledged_by = None /\ alerts[i].acknowledged_at = None

\* a list of response rows is newest first by the given timestamp field
NewestFirst(rows, ts) ==
    \A j, k \in DOMAIN rows : j < k => rows[j][ts] >= rows[k][ts]

\* C22 (as claimed): a ListReadings call answers 200 with exactly the patient's
\* Readings whose timestamp is at least now - hours (of the given type when
\* one is given), newest first and at most 1000 of them, also when a stored Reading
\* has a null numeric value or unit; a ListAlerts call answers 200 with alerts
\* newest first and at most 100 of them
C22_ListingsTotalAndOrdered ==
    [][Len(log') > Len(log) /\ log'[Len(log')].op \in {"readings", "alerts"}
       => LET entry == log'[Len(log')]
          IN  /\ entry.status = 200
              /\ entry.op = "readings"
                    => /\ Listed(entry) =
                             {i \in DOMAIN readings :
                                /\ readings[i].patient_id = entry.req[1]
                                /\ readings[i].reading_timestamp >= now - entry.req[2]
                                /\ entry.req[3] # None
                                      => readings[i].reading_type = entry.req[3][2]}
                       /\ NewestFirst(entry.body[1], "reading_timestamp")
                       /\ Len(entry.body[1]) <= ReadingsLimit
              /\ entry.op = "alerts"
                    => /\ NewestFirst(entry.body[1], "alert_timestamp")
                       /\ Len(entry.body[1]) <= AlertsLimit]_vars

\* C23: the reading_timestamp of every stored Reading is the timestamp its request
\* carried when it carried one, and otherwise the time at which the call took the
\* reading in
C23_ReadingTimestamp ==
    \A c \in IngestCalls :
        \A i \in ReadingsOf(c) :
            readings[i].reading_timestamp =
                IF log[c].req.reading_timestamp # None
                THEN log[c].req.reading_timestamp[1]
                ELSE readings[i].at

\* C23 witness: a Reading sent with timestamp 0 and taken in later is stored with
\* timestamp 0, and a Reading sent without timestamp is stored with the later
\* time at which it was taken in
C23_Witness ==
    \E c1, c2 \in IngestCalls :
        /\ log[c1].req.reading_timestamp = <<0>>
        /\ \E i \in ReadingsOf(c1) :
              readings[i].reading_timestamp = 0 /\ readings[i].at = MaxTime
        /\ log[c2].req.reading_timestamp = None
        /\ \E i \in ReadingsOf(c2) :
              readings[i].reading_timestamp = MaxTime /\ log[c2].at < MaxTime

\* the profile has no value for the bound of the type
Undefined(profile, type, bound) ==
    type \notin DOMAIN profile[1] \/ bound \notin DOMAIN profile[1][type]

\* the bound C24 gives: the profile's where it defines one, else the default
BoundOfClaim(profile, type, bound) ==
    IF Undefined(profile, type, bound)
    THEN SystemDefault(type, bound)
    ELSE profile[1][type][bound]

\* C24: a Reading with a nonzero value that was classified under an existing
\* profile is alerting exactly when the value is outside the bounds of its type,
\* each bound being the profile's where the profile defines it and else the system
\* default (systolic_max 140; glucose max 140, min 70; heart_rate max 100, min 60)
C24_PerBoundFallback ==
    \A i \in DOMAIN readings :
        LET r == readings[i]
            v == r.numeric_value[2]
            t == r.reading_type
        IN  (r.prof # None /\ r.numeric_value # None /\ v # 0) =>
                CASE t = "glucose" ->
                        r.is_alert = (\/ v > BoundOfClaim(r.prof, t, "max")
                                      \/ v < BoundOfClaim(r.prof, t, "min"))
                  [] t = "blood_pressure" ->
                        r.is_alert = (v > BoundOfClaim(r.prof, t, "systolic_max"))
                  [] t = "heart_rate" ->
                        r.is_alert = (\/ v > BoundOfClaim(r.prof, t, "max")
                                      \/ v < BoundOfClaim(r.prof, t, "min"))
                  [] OTHER -> ~r.is_alert

\* C24 witness: under a profile whose glucose entry sets max 180 and no min, a
\* glucose Reading of 55 is alerting, by the default min 70
C24_Witness ==
    \E i \in DOMAIN readings :
        /\ readings[i].prof = <<ProfileB>>
        /\ readings[i].reading_type = "glucose"
        /\ Undefined(readings[i].prof, "glucose", "min")
        /\ readings[i].numeric_value = Float_(55)
        /\ readings[i].is_alert

\* C25: in every stored Reading is_alert, a quality other than good, a set severity
\* and a set message go together, the quality is good, warning or critical, and the
\* severity of an alerting Reading is its quality label
C25_DerivedFieldsConsistent ==
    \A i \in DOMAIN readings :
        LET r == readings[i]
        IN  /\ r.quality \in {"good", "warning", "critical"}
            /\ r.is_alert = (r.quality # "good")
            /\ r.is_alert = (r.alert_severity # None)
            /\ r.is_alert = (r.alert_message # None)
            /\ r.is_alert => r.alert_severity = <<r.quality>>

\* C25 witness: a stored heart_rate Reading is alerting with quality and severity
\* warning and a message
C25_Witness ==
    \E i \in DOMAIN readings :
        /\ readings[i].reading_type = "heart_rate"
        /\ readings[i].is_alert
        /\ readings[i].quality = "warning"
        /\ readings[i].alert_severity = <<"warning">>
        /\ readings[i].alert_message # None

\* what an Ingest call must have stored, by its own request, its own device and
\* that device's patient alone
OwnAnalysis(c) ==
    LET req == log[c].req
        d == FirstDevice(devices, req.device_id)
    IN  AnalyzeReading(req.reading_type,
                       ExtractNumeric(req.reading_type, req.reading_data),
                       FirstProfile(profiles, devices[d].patient_id))

\* C26: a step changes a device row only when it is the commit of an Ingest call for
\* that very device; and however the calls of two workers interleave, the Reading
\* and the Alert a call stored are those its own request, device and patient's
\* profile give, so the stored sets are those of the calls run one after another
C26_DevicesIndependent ==
    /\ [][\A d \in DOMAIN devices :
            devices'[d] # devices[d]
                => \E w \in Workers :
                      /\ pc[w] = "commit" /\ pc'[w] # "commit"
                      /\ loc[w].device_id = d]_vars
    /\ [](\A c \in IngestCalls :
            LET req == log[c].req
                d == FirstDevice(devices, req.device_id)
            IN  /\ Cardinality(ReadingsOf(c)) <= 1
                /\ \A i \in ReadingsOf(c) :
                      /\ readings[i].device_id = d
                      /\ readings[i].patient_id = devices[d].patient_id
                      /\ readings[i].reading_type = req.reading_type
                      /\ readings[i].reading_data = req.reading_data
                      /\ Derived(readings[i]) = DerivedOf(OwnAnalysis(c))
                      /\ Cardinality(AlertsOf(c)) =
                            IF OwnAnalysis(c).is_alert THEN 1 ELSE 0
                /\ \A a \in AlertsOf(c) :
                      /\ alerts[a].patient_id = devices[d].patient_id
                      /\ alerts[a].severity = OwnAnalysis(c).severity)

\* C26 witness: two calls, one for d1 and one for d2, were in flight together and
\* both have committed; each device carries its own call's last_sync, d1's Reading
\* is normal and d2's is alerting with its Alert
C26_Witness ==
    /\ pc["w1"] = "respond" /\ pc["w2"] = "respond"
    /\ loc["w1"].device_id # loc["w2"].device_id
    /\ Len(readings) = 2 /\ Len(alerts) = 1
    /\ \E i, j \in DOMAIN readings :
          /\ readings[i].device_id = 1 /\ ~readings[i].is_alert
          /\ readings[j].device_id = 2 /\ readings[j].is_alert
    /\ \A d \in DOMAIN devices : devices[d].last_sync = now

\* a device row without its last_sync
Frame(row) == [row EXCEPT !.last_sync = 0]

\* C27: no step of an Ingest, a query or a registration removes a device row or
\* changes a field of it other than last_sync, and a row that a registration
\* created has the device_id, patient, type, name and activation flag of its request
C27_DeviceFrame ==
    /\ [][\A d \in DOMAIN devices :
            d \in DOMAIN devices' /\ Frame(devices'[d]) = Frame(devices[d])]_vars
    /\ [](\A d \in DOMAIN devices :
            devices[d].call # 0
                => Frame(devices[d]) =
                     Frame(DeviceRow(log[devices[d].call].req, TRUE, 0, devices[d].call)))

\* C27 witness: d3 was registered and an Ingest for d1 has moved d1's last_sync,
\* d1 being otherwise as seeded
C27_Witness ==
    /\ \E d \in DOMAIN devices : devices[d].call # 0 /\ devices[d].device_id = "d3"
    /\ devices[1].last_sync = now
    /\ \E c \in IngestCalls : c \in touched /\ log[c].req.device_id = "d1"
    /\ Frame(devices[1]) = Frame(SeedDevices(TRUE)[1])

\* the Ingest calls that were answered 200
Succeeded == {c \in IngestCalls : log[c].status = 200}

\* C28: every Ingest call answered 200 has stored a Reading of its own, whose id the
\* response carries, and an Alert of its own when the Reading is alerting; so two
\* such calls with the same device, type, payload and timestamp leave two Readings
\* with different ids, and two Alerts when both are alerting
C28_NoDeduplication ==
    /\ \A c \in Succeeded :
          /\ ReadingsOf(c) = {log[c].body[1].id}
          /\ Cardinality(AlertsOf(c)) = IF log[c].body[1].is_alert THEN 1 ELSE 0
    /\ \A c1, c2 \in Succeeded :
          (c1 # c2 /\ log[c1].req = log[c2].req)
              => /\ log[c1].body[1].id # log[c2].body[1].id
                 /\ Cardinality(ReadingsOf(c1) \cup ReadingsOf(c2)) = 2
                 /\ (log[c1].body[1].is_alert /\ log[c2].body[1].is_alert)
                       => Cardinality(AlertsOf(c1) \cup AlertsOf(c2)) = 2

\* C28 witness: the same alerting glucose reading of d1 with timestamp 0 was sent
\* twice and answered 200 twice; two Readings and two Alerts are stored
C28_Witness ==
    \E c1, c2 \in Succeeded :
        /\ c1 # c2 /\ log[c1].req = log[c2].req
        /\ log[c1].req.reading_timestamp = <<0>>
        /\ log[c1].body[1].is_alert
        /\ Len(readings) = 2 /\ Len(alerts) = 2
        /\ [readings[1] EXCEPT !.call = 0] = [readings[2] EXCEPT !.call = 0]

\* C29 (as claimed, of the calls the store did not fail): an Ingest call answered
\* 404, 400 or 500 has left no Reading, no Alert and no last_sync update in the
\* store; and an Ingest call that has committed a Reading is, once answered,
\* answered 200 with that Reading, whatever its payload
C29_ErrorLeavesStoreUnchanged ==
    \A c \in IngestCalls :
        ~log[c].fault =>
            /\ log[c].status \in {400, 404, 500}
                  => ReadingsOf(c) = {} /\ AlertsOf(c) = {} /\ c \notin touched
            /\ (ReadingsOf(c) # {} /\ log[c].status # 0)
                  => log[c].status = 200 /\ log[c].body[1].id \in ReadingsOf(c)

\* C30 (as claimed): a medication event that is recorded for a medication never
\* raises its adherence_rate when it is missed and never lowers it when it is taken
\* or dispensed, from every rate between 0.00 and 1.00 and after any events
C30_AdherenceMonotone ==
    [][/\ Len(log') > Len(log)
       /\ log'[Len(log')].op = "medication"
       /\ log'[Len(log')].status = 200
       => LET event == log'[Len(log')].req
              m == event.medication_id
          IN  /\ event.event_type = "missed"
                    => medications'[m][2] <= medications[m][2]
              /\ event.event_type \in {"taken", "dispensed"}
                    => medications'[m][2] >= medications[m][2]]_vars

====
